---- MODULE Spec2Model ----
(***************************************************************************)
(* Model of the agiAI RAG chatbot: the bounded same-domain crawler        *)
(* (server/chatbot.py, WebsiteScraper), the console chat loop              *)
(* (server/chatbot.py, chatbot_with_rag) and the HTTP backend              *)
(* (server/main.py).                                                       *)
(*                                                                         *)
(* Text is modelled as a sequence of one-character strings, a URL as a     *)
(* record [netloc, path], an href as the same record with netloc "" when   *)
(* it is relative.                                                         *)
(***************************************************************************)
EXTENDS Integers, Sequences, FiniteSets, TLC

VARIABLES
    \* which entry point runs: "crawl" (a WebsiteScraper on its own),
    \* "console" (chatbot.py) or "server" (main.py)
    program,
    \* ---- WebsiteScraper ----
    site,            \* the web: URL -> page (text length, hrefs)
    base_url,        \* self.base_url
    domain,          \* self.domain
    max_pages,       \* self.max_pages
    visited_urls,    \* self.visited_urls
    to_visit,        \* local list to_visit of scrape_website
    documents,       \* local list documents of scrape_website
    crawl_pc,        \* "idle", "loop" (at the while test), "done" (returned)
    fetch_log,       \* history: the URLs scrape_page was called on, in order
    enqueued,        \* history: every URL ever put on to_visit
    fetched,         \* history: what scrape_page returned for each URL, as
                     \* records [url, ok, len]
    \* ---- main.py ----
    phase,           \* "loaded" (module imported), "serving" (startup_event
                     \* returned), "aborted" (startup_event raised)
    groq_api_key,    \* os.getenv("GROQ_API_KEY") is set
    index_on_disk,   \* what FAISS_INDEX_PATH holds: "missing", "ok", "corrupt"
    rag_system,      \* global rag_system: [created, vectorstore]
    llm,             \* global llm: "None" or "ChatGroq"
    conversation_histories,  \* global dict, as a set of [session, history]
    http,            \* the request handled last and its response
    \* ---- chatbot.py, chatbot_with_rag ----
    con_pc,          \* "idle", "main", "setup", "scraping", "awaiting" (at the
                     \* prompt of the chat loop), "ended" (after the farewell),
                     \* "exited" (left before the chat loop), "crashed"
    rag,             \* local rag: [created, vectorstore]
    conversation_history,    \* local conversation_history
    turn,            \* the last pass of the chat loop and what it did
    \* ---- the two RAGSystem classes on their own ----
    build,           \* a call of process_and_store_documents: its argument,
                     \* its locals texts and metadatas, its position
    retrieval        \* a call of retrieve_context: the hits and the result

crawl_vars == <<site, base_url, domain, max_pages, visited_urls, to_visit,
                documents, crawl_pc, fetch_log, enqueued, fetched>>

server_vars == <<phase, groq_api_key, index_on_disk, rag_system, llm,
                 conversation_histories, http>>

console_vars == <<con_pc, rag, conversation_history, turn>>

index_vars == <<build, retrieval>>

vars == <<program, crawl_vars, server_vars, console_vars, index_vars>>

----------------------------------------------------------------------------
(* Bounds *)

\* largest max_pages a stand-alone crawl is constructed with
MaxPagesBound == 3

\* longest conversation_history a request carries, the ten-turn one aside
MaxHistory == 7

\* most exchanges a console session is followed for
MaxTurns == 5

\* the longest list of documents an index is built from
MaxDocs == 3

\* the most chunks split_text cuts one document into
MaxChunks == 2

----------------------------------------------------------------------------
(* URLs *)

Url(n, p) == [netloc |-> n, path |-> p]

\* urlparse(url).netloc
Netloc(url) == url.netloc

\* urljoin(url, href): a relative href takes the base's netloc, an absolute
\* one replaces the base altogether
urljoin(url, href) ==
    IF href.netloc = "" THEN Url(url.netloc, href.path) ELSE href

Rel(p) == Url("", p)

\* The webs a crawl is run against, for a seed on netloc d: the hrefs of every
\* page, in document order.
Web1(d) == (Url(d, "/") :> <<>>)
Web2(d) == (Url(d, "/") :> <<Rel("/a")>>) @@ (Url(d, "/a") :> <<>>)
Web3(d) == (Url(d, "/") :> <<Rel("/a"), Rel("/a"), Rel("/b")>>)
           @@ (Url(d, "/a") :> <<Rel("/"), Rel("/b")>>)
           @@ (Url(d, "/b") :> <<Rel("/a"), Url(d, "/")>>)
Web4(d) == (Url(d, "/") :> <<Url("other.com", "/"), Rel("/a"), Rel("/b")>>)
           @@ (Url(d, "/a") :> <<Url("other.com", "/x"), Rel("/b"), Rel("/")>>)
           @@ (Url(d, "/b") :> <<Rel("/c"), Url(d, "/a")>>)
           @@ (Url(d, "/c") :> <<Rel("/"), Url("other.com", "/")>>)
           @@ (Url("other.com", "/") :> <<Url("other.com", "/x"), Url(d, "/")>>)
Web5(d) == (Url(d, "/") :> <<Rel("/a"), Rel("/b")>>)
           @@ (Url(d, "/a") :> <<Rel("/c")>>)
           @@ (Url(d, "/b") :> <<>>)
           @@ (Url(d, "/c") :> <<Rel("/b")>>)
Webs(d) == {Web1(d), Web2(d), Web3(d), Web4(d), Web5(d)}

\* the seed and the web of a WebsiteScraper run on its own
Seed == Url("example.com", "/")
PA == Url("example.com", "/a")
PB == Url("example.com", "/b")
PC == Url("example.com", "/c")
Site3 == Web3("example.com")
Site4 == Web4("example.com")
Site5 == Web5("example.com")
Sites == Webs("example.com")

\* hrefs of the page at url; an unknown URL has no page
Hrefs(s, url) == IF url \in DOMAIN s THEN s[url] ELSE <<>>

\* lengths of the stripped text a fetched page can yield
TextLens == {0, 100, 101}

----------------------------------------------------------------------------
(* Sequence helpers *)

RECURSIVE SelectSeqBy(_, _)
SelectSeqBy(s, S) ==
    IF s = <<>> THEN <<>>
    ELSE IF Head(s) \in S THEN <<Head(s)>> \o SelectSeqBy(Tail(s), S)
         ELSE SelectSeqBy(Tail(s), S)

Range(s) == {s[i] : i \in 1..Len(s)}

----------------------------------------------------------------------------
(* WebsiteScraper *)

is_valid_url_AnyDomain(url, dom) == TRUE

\* is_valid_url: parsed.netloc == self.domain
is_valid_url(url, dom) == Netloc(url) = dom

RECURSIVE PageLinks(_, _, _, _)
\* scrape_page, the link loop: every href resolved against url, kept when it
\* is on the domain and not visited yet
PageLinks(url, hrefs, dom, visited) ==
    IF hrefs = <<>> THEN <<>>
    ELSE LET absolute_url == urljoin(url, Head(hrefs))
             rest == PageLinks(url, Tail(hrefs), dom, visited)
         IN IF is_valid_url(absolute_url, dom) /\ absolute_url \notin visited
            THEN <<absolute_url>> \o rest
            ELSE rest

scrape_page_FailureKeepsLinks(s, url, dom, visited, ok, len) ==
    [text |-> IF ok /\ url \in DOMAIN s
              THEN [none |-> FALSE, len |-> len]
              ELSE [none |-> TRUE, len |-> 0],
     links |-> PageLinks(url, Hrefs(s, url), dom, visited)]

\* scrape_page: (text, links) on success, (None, []) on any exception
scrape_page(s, url, dom, visited, ok, len) ==
    IF ok /\ url \in DOMAIN s
    THEN [text |-> [none |-> FALSE, len |-> len],
          links |-> PageLinks(url, Hrefs(s, url), dom, visited)]
    ELSE [text |-> [none |-> TRUE, len |-> 0], links |-> <<>>]

LoopCondition_OffByOne(tv, visited, mp) ==
    tv # <<>> /\ Cardinality(visited) < mp - 1

\* while to_visit and len(self.visited_urls) < self.max_pages
LoopCondition(tv, visited, mp) ==
    tv # <<>> /\ Cardinality(visited) < mp

AlreadyVisited_Never(url, visited) == FALSE

\* if url in self.visited_urls: continue
AlreadyVisited(url, visited) == url \in visited

KeepsDocument_AtLeast100(text) == ~text.none /\ text.len >= 100

\* if text and len(text.strip()) > 100
KeepsDocument(text) == ~text.none /\ text.len > 100

Extend_AtFront(tv, new) == new \o tv

\* to_visit.extend(...)
Extend(tv, new) == tv \o new

\* WebsiteScraper(base_url, max_pages) followed by the first lines of
\* scrape_website
StartCrawl(s, seed, mp) ==
    /\ site' = s
    /\ base_url' = seed
    /\ domain' = Netloc(seed)
    /\ max_pages' = mp
    /\ visited_urls' = {}
    /\ to_visit' = <<seed>>
    /\ documents' = <<>>
    /\ crawl_pc' = "loop"
    /\ fetch_log' = <<>>
    /\ enqueued' = {seed}
    /\ fetched' = {}

\* one iteration that pops an already visited URL and continues
CrawlSkip ==
    /\ crawl_pc = "loop"
    /\ LoopCondition(to_visit, visited_urls, max_pages)
    /\ AlreadyVisited(Head(to_visit), visited_urls)
    /\ to_visit' = Tail(to_visit)
    /\ UNCHANGED <<program, index_vars, site, base_url, domain, max_pages, visited_urls,
                   documents, crawl_pc, fetch_log, enqueued, fetched,
                   server_vars, console_vars>>

\* one iteration that visits the popped URL
CrawlVisit ==
    /\ crawl_pc = "loop"
    /\ LoopCondition(to_visit, visited_urls, max_pages)
    /\ ~AlreadyVisited(Head(to_visit), visited_urls)
    /\ \E ok \in BOOLEAN, len \in TextLens :
        LET url == Head(to_visit)
            visited1 == visited_urls \cup {url}
            page == scrape_page(site, url, domain, visited1, ok, len)
            new == SelectSeqBy(page.links, Range(page.links) \ visited1)
        IN /\ visited_urls' = visited1
           /\ fetch_log' = Append(fetch_log, url)
           /\ documents' = IF KeepsDocument(page.text)
                           THEN Append(documents,
                                       [content |-> page.text, source |-> url])
                           ELSE documents
           /\ to_visit' = Extend(Tail(to_visit), new)
           /\ enqueued' = enqueued \cup Range(new)
           /\ fetched' = fetched \cup {[url |-> url, ok |-> ~page.text.none,
                                        len |-> page.text.len]}
    /\ UNCHANGED <<program, index_vars, site, base_url, domain, max_pages, crawl_pc,
                   server_vars, console_vars>>

\* the while test fails: scrape_website returns documents
CrawlExit ==
    /\ crawl_pc = "loop"
    /\ ~LoopCondition(to_visit, visited_urls, max_pages)
    /\ crawl_pc' = "done"
    /\ UNCHANGED <<program, index_vars, site, base_url, domain, max_pages, visited_urls,
                   to_visit, documents, fetch_log, enqueued, fetched,
                   server_vars, console_vars>>

----------------------------------------------------------------------------
(* Text: a str is a sequence of one-character strings *)

Whitespace == {" ", "\t", "\n"}

UpperCase == <<"A", "B", "C", "D", "E", "F", "G", "H", "I", "J", "K", "L", "M",
               "N", "O", "P", "Q", "R", "S", "T", "U", "V", "W", "X", "Y", "Z">>
LowerCase == <<"a", "b", "c", "d", "e", "f", "g", "h", "i", "j", "k", "l", "m",
               "n", "o", "p", "q", "r", "s", "t", "u", "v", "w", "x", "y", "z">>

RECURSIVE lstrip(_)
lstrip(s) ==
    IF s # <<>> /\ Head(s) \in Whitespace THEN lstrip(Tail(s)) ELSE s

RECURSIVE rstrip(_)
rstrip(s) ==
    IF s # <<>> /\ s[Len(s)] \in Whitespace
    THEN rstrip(SubSeq(s, 1, Len(s) - 1))
    ELSE s

strip_Nothing(s) == s

\* str.strip()
strip(s) == rstrip(lstrip(s))

LowerChar(c) ==
    IF \E i \in 1..Len(UpperCase) : UpperCase[i] = c
    THEN LowerCase[CHOOSE i \in 1..Len(UpperCase) : UpperCase[i] = c]
    ELSE c

\* str.lower()
lower(s) == [i \in 1..Len(s) |-> LowerChar(s[i])]

Max(a, b) == IF a >= b THEN a ELSE b
Min(a, b) == IF a <= b THEN a ELSE b

----------------------------------------------------------------------------
(* Messages, retrieval and the oracles both entry points use *)

SystemMessage(c) == [type |-> "system", content |-> c]
HumanMessage(c) == [type |-> "human", content |-> c]
AIMessage(c) == [type |-> "ai", content |-> c]

\* number of trailing history entries sent to the model
HistoryWindow == 6

\* retrieve_context(self, query, k=3)
DefaultK == 3

RecentHistory_First(h) == SubSeq(h, 1, Min(Len(h), HistoryWindow))

\* h[-6:]
RecentHistory(h) == SubSeq(h, Max(1, Len(h) - HistoryWindow + 1), Len(h))

\* a hit of similarity_search: page_content and metadata
Hit(text, has_source, source) ==
    [page_content |-> text, has_source |-> has_source, source |-> source]

\* doc.metadata.get('source', 'Unknown')
SourceOf(doc) == IF doc.has_source THEN doc.source ELSE "Unknown"

\* the results similarity_search(query, k=3) can give
HitsSamples ==
    { <<>>,
      <<Hit(<<"c", "1">>, TRUE, "/services"), Hit(<<"c", "2">>, FALSE, ""),
        Hit(<<"c", "3">>, TRUE, "/about")>> }

Digits == <<"0", "1", "2", "3", "4", "5", "6", "7", "8", "9">>

RECURSIVE str(_)
\* the decimal digits of {i} in the f-string
str(n) ==
    IF n < 10 THEN <<Digits[n + 1]>>
    ELSE str(n \div 10) \o <<Digits[(n % 10) + 1]>>

\* f"[Source {i}: {source}]\n{doc.page_content}"
Section(i, doc) ==
    <<"[Source ">> \o str(i) \o <<": ", SourceOf(doc), "]", "\n">>
    \o doc.page_content

ContextParts_FromZero(docs) ==
    [i \in 1..Len(docs) |-> Section(i - 1, docs[i])]

\* context_parts after the loop over enumerate(docs, 1)
ContextParts(docs) ==
    [i \in 1..Len(docs) |-> Section(i, docs[i])]

RECURSIVE Join(_, _)
\* sep.join(parts)
Join(sep, parts) ==
    IF parts = <<>> THEN <<>>
    ELSE IF Len(parts) = 1 THEN parts[1]
    ELSE parts[1] \o sep \o Join(sep, Tail(parts))

\* context = "\n\n".join(context_parts)
FormatContext(docs) == Join(<<"\n", "\n">>, ContextParts(docs))

Sources(docs) == [i \in 1..Len(docs) |-> SourceOf(docs[i])]

\* what the embedding search and the model do with one request or turn:
\* similarity_search raises or returns hits, llm.invoke raises or replies
Oracles ==
    [search_ok : BOOLEAN, hits : HitsSamples, llm_ok : BOOLEAN,
     reply : {<<"o", "k">>}]

\* oracles that differ only in fields nobody reads are the same oracle
Oracle(o) ==
    /\ o \in Oracles
    /\ (~o.search_ok => o.hits = <<>> /\ o.llm_ok)

----------------------------------------------------------------------------
(* main.py: the HTTP backend *)

NoRag == [created |-> FALSE, vectorstore |-> "None"]

\* the module-level assignments rag_system = None, llm = None,
\* conversation_histories = {}
ModuleGlobals ==
    [rag_system |-> NoRag, llm |-> "None", conversation_histories |-> {}]

Globals == [rag_system |-> rag_system, llm |-> llm,
            conversation_histories |-> conversation_histories]

\* ChatRequest: content, role = "user", conversation_history = None
ChatRequest(content, has_history, history) ==
    [content |-> content, role |-> "user", has_history |-> has_history,
     conversation_history |-> history]

NoRequest == ChatRequest(<<>>, FALSE, <<>>)

\* what a handler leaves behind: the response and what the handler did
Handled(op, req, seen, status, body, retrieved, invoked, llm_failed, messages) ==
    [op |-> op, request |-> req, seen |-> seen, status |-> status,
     body |-> body, retrieved |-> retrieved, invoked |-> invoked,
     llm_failed |-> llm_failed, messages |-> messages]

NoHttp == Handled("none", NoRequest, ModuleGlobals, 0, [detail |-> ""],
                  FALSE, FALSE, FALSE, <<>>)

\* RAGSystem.retrieve_context of main.py: (context, sources)
main_retrieve_context(rs, docs) ==
    IF rs.vectorstore = "None"
    THEN [context |-> <<>>, sources |-> <<>>]
    ELSE [context |-> FormatContext(docs), sources |-> Sources(docs)]

\* the system prompt of get_message with the context formatted in
main_system_prompt(context) == [assistant |-> "AgiAI", context |-> context]

RECURSIVE main_history_messages(_)
\* the loop over recent_history: user -> HumanMessage, bot -> AIMessage,
\* any other role appends nothing
main_history_messages(h) ==
    IF h = <<>> THEN <<>>
    ELSE LET msg == Head(h)
             rest == main_history_messages(Tail(h))
         IN IF msg.role = "user" THEN <<HumanMessage(msg.content)>> \o rest
            ELSE IF msg.role = "bot" THEN <<AIMessage(msg.content)>> \o rest
            ELSE rest

\* messages = [SystemMessage] + converted recent history + [HumanMessage]
main_build_messages(context, req, user_message) ==
    <<SystemMessage(main_system_prompt(context))>>
    \o (IF req.has_history /\ req.conversation_history # <<>>
        THEN main_history_messages(RecentHistory(req.conversation_history))
        ELSE <<>>)
    \o <<HumanMessage(user_message)>>

RagUnavailable_NoStoreCheck(rs) == ~rs.created

\* if not rag_system or not rag_system.vectorstore
RagUnavailable(rs) == ~rs.created \/ rs.vectorstore = "None"

\* the outcome of a block of code: it returned a value or raised
Returned(value, retrieved, invoked, messages) ==
    [raised |-> FALSE, exc |-> "", status |-> 200, value |-> value,
     retrieved |-> retrieved, invoked |-> invoked, llm_failed |-> FALSE,
     messages |-> messages]
Raised(exc, status, detail, retrieved, invoked, llm_failed, messages) ==
    [raised |-> TRUE, exc |-> exc, status |-> status,
     value |-> [detail |-> detail],
     retrieved |-> retrieved, invoked |-> invoked, llm_failed |-> llm_failed,
     messages |-> messages]

\* the body of the try block of get_message
get_message_try(req, g, o) ==
    LET user_message == strip(req.content)
    IN IF user_message = <<>>
       THEN Raised("HTTPException", 400, <<"Message content cannot be empty">>,
                   FALSE, FALSE, FALSE, <<>>)
       ELSE IF ~o.search_ok
       THEN Raised("Exception", 0, <<"similarity_search failed">>,
                   TRUE, FALSE, FALSE, <<>>)
       ELSE LET r == main_retrieve_context(g.rag_system, o.hits)
                messages == main_build_messages(r.context, req, user_message)
            IN IF ~o.llm_ok
               THEN Raised("Exception", 0, <<"llm.invoke failed">>,
                           TRUE, TRUE, TRUE, messages)
               ELSE Returned([content |-> o.reply, role |-> "bot",
                              has_sources |-> r.sources # <<>>,
                              sources |-> r.sources],
                             TRUE, TRUE, messages)

\* except Exception as e: HTTPException is a subclass of Exception
main_catches(exc) == exc \in {"Exception", "HTTPException"}

\* get_message: the two 503 guards, then the try block and its handler.  An
\* exception that leaves the handler is answered by the framework: an
\* HTTPException with its own status code, anything else with 500.
get_message(req, g, o) ==
    IF RagUnavailable(g.rag_system)
    THEN Handled("getMsg", req, g, 503,
                 [detail |-> <<"RAG system not initialized">>],
                 FALSE, FALSE, FALSE, <<>>)
    ELSE IF g.llm = "None"
    THEN Handled("getMsg", req, g, 503, [detail |-> <<"LLM not initialized">>],
                 FALSE, FALSE, FALSE, <<>>)
    ELSE LET t == get_message_try(req, g, o)
         IN IF ~t.raised
            THEN Handled("getMsg", req, g, 200, t.value,
                         t.retrieved, t.invoked, t.llm_failed, t.messages)
            ELSE IF main_catches(t.exc)
            THEN Handled("getMsg", req, g, 500,
                         [detail |-> <<"Error processing your message">>
                                     \o t.value.detail],
                         t.retrieved, t.invoked, t.llm_failed, t.messages)
            ELSE Handled("getMsg", req, g,
                         IF t.exc = "HTTPException" THEN t.status ELSE 500,
                         t.value, t.retrieved, t.invoked, t.llm_failed,
                         t.messages)

reset_conversation_ClearsAll(g) ==
    [globals |-> ModuleGlobals,
     body |-> [status |-> "success", message |-> "Conversation history cleared"]]

\* reset_conversation: conversation_histories = {}
reset_conversation(g) ==
    [globals |-> [g EXCEPT !.conversation_histories = {}],
     body |-> [status |-> "success", message |-> "Conversation history cleared"]]

root_CreatedOnly(g) ==
    [status |-> "online", rag_loaded |-> g.rag_system.created]

\* root
root(g) ==
    [status |-> "online",
     rag_loaded |-> g.rag_system.created /\ g.rag_system.vectorstore # "None"]

\* health_check
health_check(g) ==
    [status |-> "healthy",
     rag_system |-> [initialized |-> g.rag_system.created,
                     vectorstore_loaded |->
                         IF g.rag_system.created
                         THEN g.rag_system.vectorstore # "None"
                         ELSE FALSE],
     llm |-> [initialized |-> g.llm # "None"]]

startup_event_KeyCheckLast(g, key, disk) ==
    LET g1 == [g EXCEPT !.llm = "ChatGroq",
                        !.rag_system = [created |-> TRUE,
                                        vectorstore |-> "None"]]
    IN CASE disk = "missing" -> [globals |-> g1, raised |-> ~key]
         [] disk = "ok" ->
               [globals |-> [g1 EXCEPT !.rag_system.vectorstore = "FAISS"],
                raised |-> ~key]
         [] OTHER -> [globals |-> g1, raised |-> TRUE]

\* startup_event: the globals it leaves and whether it raised
startup_event(g, key, disk) ==
    IF ~key
    THEN [globals |-> g, raised |-> TRUE]
    ELSE LET g1 == [g EXCEPT !.llm = "ChatGroq",
                             !.rag_system = [created |-> TRUE,
                                             vectorstore |-> "None"]]
         IN CASE disk = "missing" -> [globals |-> g1, raised |-> FALSE]
              [] disk = "ok" ->
                    [globals |-> [g1 EXCEPT !.rag_system.vectorstore = "FAISS"],
                     raised |-> FALSE]
              [] OTHER -> [globals |-> g1, raised |-> TRUE]

\* the request bodies clients send
ContentSamples ==
    { <<>>, <<" ">>, <<" ", "\t", "\n">>, <<"h", "i">>,
      <<" ", "h", "i", "\n">> }

\* the content of the i-th entry of a history
EntryText == <<"1", "2", "3", "4", "5", "6", "7", "8", "9", "10", "11", "12">>

\* an entry of a history saying i: user and bot take turns
Entry(i) == [content |-> <<"m", EntryText[i]>>,
            role |-> IF i % 2 = 1 THEN "user" ELSE "bot"]

\* the histories of n entries in which user and bot take turns, but for at
\* most one entry that has the role "assistant"
Histories(n) ==
    { [i \in 1..n |-> IF i = odd THEN [Entry(i) EXCEPT !.role = "assistant"]
                      ELSE Entry(i)] : odd \in 0..n }

\* ten prior turns
TenTurns == [i \in 1..10 |-> Entry(i)]

Requests ==
    {ChatRequest(c, FALSE, <<>>) : c \in ContentSamples}
    \cup {ChatRequest(c, TRUE, h) :
            c \in ContentSamples,
            h \in {TenTurns} \cup UNION {Histories(n) : n \in 0..MaxHistory}}

SetGlobals(g) ==
    /\ rag_system' = g.rag_system
    /\ llm' = g.llm
    /\ conversation_histories' = g.conversation_histories

\* the ASGI host runs the startup handler once, before it serves
Startup ==
    /\ program = "server"
    /\ phase = "loaded"
    /\ LET r == startup_event(Globals, groq_api_key, index_on_disk)
       IN /\ SetGlobals(r.globals)
          /\ phase' = IF r.raised THEN "aborted" ELSE "serving"
    /\ UNCHANGED <<program, index_vars, crawl_vars, console_vars, groq_api_key, index_on_disk, http>>

\* a handler runs to completion once called: none of them awaits
Handling == program = "server" /\ phase \in {"loaded", "serving"}

PostGetMsg ==
    /\ Handling
    /\ \E req \in Requests, o \in Oracles :
        /\ Oracle(o)
        /\ http' = get_message(req, Globals, o)
    /\ UNCHANGED <<program, index_vars, crawl_vars, console_vars, phase, groq_api_key, index_on_disk,
                   rag_system, llm, conversation_histories>>

PostReset ==
    /\ Handling
    /\ LET r == reset_conversation(Globals)
       IN /\ SetGlobals(r.globals)
          /\ http' = Handled("reset", NoRequest, Globals, 200, r.body,
                             FALSE, FALSE, FALSE, <<>>)
    /\ UNCHANGED <<program, index_vars, crawl_vars, console_vars, phase, groq_api_key, index_on_disk>>

GetRoot ==
    /\ Handling
    /\ http' = Handled("root", NoRequest, Globals, 200, root(Globals),
                       FALSE, FALSE, FALSE, <<>>)
    /\ UNCHANGED <<program, index_vars, crawl_vars, console_vars, phase, groq_api_key, index_on_disk,
                   rag_system, llm, conversation_histories>>

GetHealth ==
    /\ Handling
    /\ http' = Handled("health", NoRequest, Globals, 200, health_check(Globals),
                       FALSE, FALSE, FALSE, <<>>)
    /\ UNCHANGED <<program, index_vars, crawl_vars, console_vars, phase, groq_api_key, index_on_disk,
                   rag_system, llm, conversation_histories>>

\* the state of main.py once imported
ServerLoaded ==
    /\ phase = "loaded"
    /\ rag_system = ModuleGlobals.rag_system
    /\ llm = ModuleGlobals.llm
    /\ conversation_histories = ModuleGlobals.conversation_histories
    /\ http = NoHttp

CrawlIdle ==
    /\ site = Web1("example.com")
    /\ base_url = Seed
    /\ domain = Netloc(Seed)
    /\ max_pages = 0
    /\ visited_urls = {}
    /\ to_visit = <<>>
    /\ documents = <<>>
    /\ crawl_pc = "idle"
    /\ fetch_log = <<>>
    /\ enqueued = {}
    /\ fetched = {}

NextServer == Startup \/ PostGetMsg \/ PostReset \/ GetRoot \/ GetHealth

----------------------------------------------------------------------------
(* chatbot.py: the console chatbot *)

\* WEBSITE_URL = "https://agiteks.com"
WEBSITE_URL == Url("agiteks.com", "/")

\* MAX_PAGES_TO_SCRAPE
MAX_PAGES_TO_SCRAPE == 20

\* the webs the console crawl finds behind WEBSITE_URL
ConsoleWebs == {Web2(Netloc(WEBSITE_URL)), Web3(Netloc(WEBSITE_URL))}

\* what the user types at a prompt
ConsoleInputs ==
    { <<>>, <<" ", "\t">>, <<"h", "i">>, <<" ", "h", "i", " ">>,
      <<"q", "u", "i", "t">>, <<"Q", "U", "I", "T">>,
      <<" ", "B", "y", "E", " ">>, <<"e", "x", "i", "t">>,
      <<"q", "u", "i", "t", "s">> }

\* what the user answers to the re-scrape question
ChoiceInputs == { <<"y">>, <<" ", "Y", " ">>, <<"n">>, <<>>, <<"y", "e", "s">> }

\* what the user answers when asked for the API key
KeyInputs == { <<>>, <<" ">>, <<"g", "s", "k">> }

ControlWords == { <<"q", "u", "i", "t">>, <<"e", "x", "i", "t">>, <<"b", "y", "e">> }

IsControlInput_CaseSensitive(user_input) == user_input \in ControlWords

\* user_input.lower() in ['quit', 'exit', 'bye']
IsControlInput(user_input) == lower(user_input) \in ControlWords

\* RAGSystem.retrieve_context of chatbot.py: the context only
chatbot_retrieve_context(rs, docs) ==
    IF rs.vectorstore = "None" THEN <<>> ELSE FormatContext(docs)

\* the system prompt of chatbot_with_rag with the context formatted in
chatbot_system_prompt(context) == [assistant |-> "Agiteks", context |-> context]

\* messages = [SystemMessage]; extend(conversation_history[-6:]); append
chatbot_build_messages(context, history, user_input) ==
    <<SystemMessage(chatbot_system_prompt(context))>>
    \o RecentHistory(history)
    \o <<HumanMessage(user_input)>>

\* what one pass of the while True loop leaves behind
TurnRecord(input, seen, outcome, retrieved, invoked, llm_failed, messages) ==
    [input |-> input, seen |-> seen, outcome |-> outcome,
     retrieved |-> retrieved, invoked |-> invoked, llm_failed |-> llm_failed,
     messages |-> messages]

NoTurn == TurnRecord(<<>>, <<>>, "none", FALSE, FALSE, FALSE, <<>>)

AppendExchange_ReplyFirst(history, user_input, reply) ==
    history \o <<AIMessage(reply), HumanMessage(user_input)>>

\* conversation_history.append(HumanMessage(...)); .append(AIMessage(...))
AppendExchange(history, user_input, reply) ==
    history \o <<HumanMessage(user_input), AIMessage(reply)>>

HasDocuments_Always(docs) == TRUE

\* if documents:
HasDocuments(docs) == docs # <<>>

chatbot_catches_Nothing(exc) == FALSE

\* except Exception as e
chatbot_catches(exc) == exc \in {"Exception"}

\* one pass of the while True loop of chatbot_with_rag: where the program is
\* afterwards, the history and what the pass did
chat_turn(input, history, rs, o) ==
    LET user_input == strip(input)
    IN IF IsControlInput(user_input)
       THEN [pc |-> "ended", history |-> history,
             turn |-> TurnRecord(input, history, "bye", FALSE, FALSE, FALSE, <<>>)]
       ELSE IF user_input = <<>>
       THEN [pc |-> "awaiting", history |-> history,
             turn |-> TurnRecord(input, history, "empty", FALSE, FALSE, FALSE, <<>>)]
       ELSE IF ~o.search_ok
       THEN [pc |-> IF chatbot_catches("Exception") THEN "awaiting"
                    ELSE "crashed",
             history |-> history,
             turn |-> TurnRecord(input, history, "error", TRUE, FALSE, FALSE, <<>>)]
       ELSE LET context == chatbot_retrieve_context(rs, o.hits)
                messages == chatbot_build_messages(context, history, user_input)
            IN IF ~o.llm_ok
               THEN [pc |-> IF chatbot_catches("Exception") THEN "awaiting"
                            ELSE "crashed",
                     history |-> history,
                     turn |-> TurnRecord(input, history, "error", TRUE, TRUE, TRUE,
                                    messages)]
               ELSE [pc |-> "awaiting",
                     history |-> AppendExchange(history, user_input, o.reply),
                     turn |-> TurnRecord(input, history, "ok", TRUE, TRUE, FALSE,
                                    messages)]

\* __main__: without GROQ_API_KEY the key is asked for; a blank answer exits
ConsoleMain ==
    /\ program = "console"
    /\ con_pc = "main"
    /\ \E answer \in KeyInputs :
        LET api_key == strip(answer)
        IN IF groq_api_key
           THEN con_pc' = "setup" /\ UNCHANGED groq_api_key
           ELSE IF api_key # <<>>
           THEN con_pc' = "setup" /\ groq_api_key' = TRUE
           ELSE con_pc' = "exited" /\ UNCHANGED groq_api_key
    /\ UNCHANGED <<program, index_vars, crawl_vars, phase, index_on_disk, rag_system, llm,
                   conversation_histories, http, rag, conversation_history,
                   turn>>

\* chatbot_with_rag up to the chat loop, when the index is loaded from disk or
\* the load fails
ConsoleLoad ==
    /\ program = "console"
    /\ con_pc = "setup"
    /\ index_on_disk # "missing"
    /\ \E answer \in ChoiceInputs :
        LET choice == lower(strip(answer))
        IN /\ choice # <<"y">>
           /\ IF index_on_disk = "ok"
              THEN /\ rag' = [created |-> TRUE, vectorstore |-> "FAISS"]
                   /\ con_pc' = "awaiting"
              ELSE /\ rag' = [created |-> TRUE, vectorstore |-> "None"]
                   /\ con_pc' = "exited"
    /\ UNCHANGED <<program, index_vars, crawl_vars, server_vars, conversation_history, turn>>

\* chatbot_with_rag up to the call of scrape_website
ConsoleScrape ==
    /\ program = "console"
    /\ con_pc = "setup"
    /\ \/ index_on_disk = "missing"
       \/ \E answer \in ChoiceInputs : lower(strip(answer)) = <<"y">>
    /\ \E s \in ConsoleWebs :
        StartCrawl(s, WEBSITE_URL, MAX_PAGES_TO_SCRAPE)
    /\ rag' = [created |-> TRUE, vectorstore |-> "None"]
    /\ con_pc' = "scraping"
    /\ UNCHANGED <<program, index_vars, server_vars, conversation_history, turn>>

\* scrape_website has returned: the documents are indexed, or there are none
\* and the program exits
ConsoleScraped ==
    /\ program = "console"
    /\ con_pc = "scraping"
    /\ crawl_pc = "done"
    /\ IF HasDocuments(documents)
       THEN /\ rag' = [rag EXCEPT !.vectorstore = "FAISS"]
            /\ index_on_disk' = "ok"
            /\ con_pc' = "awaiting"
       ELSE /\ con_pc' = "exited"
            /\ UNCHANGED <<rag, index_on_disk>>
    /\ UNCHANGED <<program, index_vars, crawl_vars, phase, groq_api_key, rag_system, llm,
                   conversation_histories, http, conversation_history, turn>>

\* one pass of the chat loop
ConsoleTurn ==
    /\ program = "console"
    /\ con_pc = "awaiting"
    /\ \E input \in ConsoleInputs, o \in Oracles :
        /\ Oracle(o)
        /\ LET r == chat_turn(input, conversation_history, rag, o)
           IN /\ Len(r.history) <= 2 * MaxTurns
              /\ con_pc' = r.pc
              /\ conversation_history' = r.history
              /\ turn' = r.turn
    /\ UNCHANGED <<program, index_vars, crawl_vars, server_vars, rag>>

\* the state of chatbot.py once started
ConsoleStarted ==
    /\ con_pc = "main"
    /\ rag = NoRag
    /\ conversation_history = <<>>
    /\ turn = NoTurn

\* the console variables while another entry point runs
ConsoleIdle ==
    /\ con_pc = "idle"
    /\ rag = NoRag
    /\ conversation_history = <<>>
    /\ turn = NoTurn

----------------------------------------------------------------------------
(* The two RAGSystem classes on their own: index build and formatter *)

\* all sequences over S of length at most n
SeqsUpTo(S, n) == UNION {[1..m -> S] : m \in 0..n}

\* the Documents scrape_website can hand over: {'content', 'source'}
BuildDocuments ==
    { [content |-> [none |-> FALSE, len |-> 101], source |-> Seed],
      [content |-> [none |-> FALSE, len |-> 1500], source |-> PA],
      [content |-> [none |-> FALSE, len |-> 2400], source |-> PB] }

\* text_splitter.split_text(doc['content']) giving k chunks of the content
split_text(content, k) == [j \in 1..k |-> [of |-> content, part |-> j]]

ChunkMetadatas_OnePerDocument(doc, chunks) == <<[source |-> doc.source]>>

\* [{'source': doc['source']} for _ in chunks]
ChunkMetadatas(doc, chunks) ==
    [j \in 1..Len(chunks) |-> [source |-> doc.source]]

\* FAISS.from_texts(texts=texts, metadatas=metadatas): the i-th text is stored
\* with the i-th metadata
from_texts(texts, metadatas) ==
    [i \in 1..Len(texts) |-> [page_content |-> texts[i], metadata |-> metadatas[i]]]

NoBuild ==
    [pc |-> "idle", documents |-> <<>>, next |-> 1, texts |-> <<>>,
     metadatas |-> <<>>, origins |-> <<>>, index |-> <<>>]

NoRetrieval ==
    [pc |-> "idle", variant |-> "none", has_store |-> FALSE, docs |-> <<>>,
     context |-> <<>>, sources |-> <<>>]

\* the index variables while an entry point of the repository runs
IndexIdle ==
    /\ build = NoBuild
    /\ retrieval = NoRetrieval

\* one pass of `for doc in documents`: split, extend texts, extend metadatas;
\* origins records which document each chunk was split from
BuildChunk ==
    /\ program = "build"
    /\ build.pc = "loop"
    /\ build.next <= Len(build.documents)
    /\ \E k \in 0..MaxChunks :
          LET doc == build.documents[build.next]
              chunks == split_text(doc.content, k)
          IN build' = [build EXCEPT
                          !.texts = @ \o chunks,
                          !.metadatas = @ \o ChunkMetadatas(doc, chunks),
                          !.origins = @ \o [j \in 1..k |-> build.next],
                          !.next = @ + 1]
    /\ UNCHANGED <<program, retrieval, crawl_vars, server_vars, console_vars>>

\* the loop is over: self.vectorstore = FAISS.from_texts(...)
BuildStore ==
    /\ program = "build"
    /\ build.pc = "loop"
    /\ build.next > Len(build.documents)
    /\ build' = [build EXCEPT
                    !.pc = "stored",
                    !.index = from_texts(build.texts, build.metadatas)]
    /\ UNCHANGED <<program, retrieval, crawl_vars, server_vars, console_vars>>

\* process_and_store_documents called on any list of documents
InitBuild ==
    /\ program = "build"
    /\ build \in { [NoBuild EXCEPT !.pc = "loop", !.documents = d] :
                      d \in SeqsUpTo(BuildDocuments, MaxDocs) }
    /\ retrieval = NoRetrieval
    /\ groq_api_key = FALSE
    /\ index_on_disk = "missing"
    /\ ServerLoaded
    /\ CrawlIdle
    /\ ConsoleIdle

NextBuild == BuildChunk \/ BuildStore

SpecBuild == InitBuild /\ [][NextBuild]_vars

\* the hits similarity_search can rank: with and without a source, with an
\* empty text, with a blank line inside the text
HitDocs ==
    { Hit(<<"c", "1">>, TRUE, "/services"),
      Hit(<<"c", "\n", "\n", "2">>, FALSE, ""),
      Hit(<<>>, TRUE, "/about"),
      Hit(<<"c", "3", "x">>, TRUE, "/about") }

\* self.vectorstore of the RAGSystem the call is made on
StoreOf(r) ==
    [created |-> TRUE, vectorstore |-> IF r.has_store THEN "FAISS" ELSE "None"]

\* rag_system.retrieve_context(user_message, k=3) of main.py returns
MainRetrieve ==
    /\ program = "retrieve"
    /\ retrieval.pc = "asked"
    /\ retrieval.variant = "main"
    /\ LET r == main_retrieve_context(StoreOf(retrieval), retrieval.docs)
       IN retrieval' = [retrieval EXCEPT !.pc = "returned",
                                         !.context = r.context,
                                         !.sources = r.sources]
    /\ UNCHANGED <<program, build, crawl_vars, server_vars, console_vars>>

\* rag.retrieve_context(user_input, k=3) of chatbot.py returns
ChatbotRetrieve ==
    /\ program = "retrieve"
    /\ retrieval.pc = "asked"
    /\ retrieval.variant = "chatbot"
    /\ LET c == chatbot_retrieve_context(StoreOf(retrieval), retrieval.docs)
       IN retrieval' = [retrieval EXCEPT !.pc = "returned", !.context = c]
    /\ UNCHANGED <<program, build, crawl_vars, server_vars, console_vars>>

\* retrieve_context called in either variant, with or without an index, on
\* any ranking of at most k hits
InitRetrieve ==
    /\ program = "retrieve"
    /\ retrieval \in { [NoRetrieval EXCEPT !.pc = "asked", !.variant = v,
                                           !.has_store = hs, !.docs = d] :
                          v \in {"main", "chatbot"}, hs \in BOOLEAN,
                          d \in SeqsUpTo(HitDocs, DefaultK) }
    /\ build = NoBuild
    /\ groq_api_key = FALSE
    /\ index_on_disk = "missing"
    /\ ServerLoaded
    /\ CrawlIdle
    /\ ConsoleIdle

NextRetrieve == MainRetrieve \/ ChatbotRetrieve

SpecRetrieve == InitRetrieve /\ [][NextRetrieve]_vars

----------------------------------------------------------------------------
(* The entry points *)

InitServer ==
    /\ program = "server"
    /\ groq_api_key \in BOOLEAN
    /\ index_on_disk \in {"missing", "ok", "corrupt"}
    /\ ServerLoaded
    /\ CrawlIdle
    /\ ConsoleIdle
    /\ IndexIdle

InitConsole ==
    /\ program = "console"
    /\ groq_api_key \in BOOLEAN
    /\ index_on_disk \in {"missing", "ok", "corrupt"}
    /\ ServerLoaded
    /\ CrawlIdle
    /\ ConsoleStarted
    /\ IndexIdle

NextConsole ==
    \/ ConsoleMain \/ ConsoleLoad \/ ConsoleScrape \/ ConsoleScraped
    \/ ConsoleTurn
    \/ (program = "console" /\ (CrawlSkip \/ CrawlVisit \/ CrawlExit))

SpecConsole == InitConsole /\ [][NextConsole]_vars

\* either entry point of the repository
Init == InitConsole \/ InitServer

Next == NextConsole \/ NextServer

Spec == Init /\ [][Next]_vars

----------------------------------------------------------------------------
(* A WebsiteScraper run on its own, for any web, seed and page cap *)

InitCrawl ==
    /\ program = "crawl"
    /\ site \in Sites
    /\ base_url = Seed
    /\ domain = Netloc(Seed)
    /\ max_pages \in 0..MaxPagesBound
    /\ visited_urls = {}
    /\ to_visit = <<Seed>>
    /\ documents = <<>>
    /\ crawl_pc = "loop"
    /\ fetch_log = <<>>
    /\ enqueued = {Seed}
    /\ fetched = {}
    /\ groq_api_key = FALSE
    /\ index_on_disk = "missing"
    /\ ServerLoaded
    /\ ConsoleIdle
    /\ IndexIdle

NextCrawl == CrawlSkip \/ CrawlVisit \/ CrawlExit

SpecServer == InitServer /\ [][NextServer]_vars

SpecCrawl == InitCrawl /\ [][NextCrawl]_vars

\* the loop is sequential code: it keeps running until it returns
FairSpecCrawl == SpecCrawl /\ WF_vars(NextCrawl)

----------------------------------------------------------------------------
(* Properties of the crawl *)

NoDuplicates(s) == \A i, j \in 1..Len(s) : s[i] = s[j] => i = j

\* C3: at every point of a crawl the number of visited URLs is at most
\* max_pages, and every URL that is visited or was ever put on the frontier
\* has the netloc of the seed URL.
C3_VisitedBoundedSameDomain ==
    crawl_pc \in {"loop", "done"} =>
        /\ Cardinality(visited_urls) <= max_pages
        /\ \A u \in visited_urls \cup enqueued : Netloc(u) = Netloc(base_url)

\* the cap is reached on a web whose fetched pages link to another domain,
\* with URLs still waiting on the frontier
C3_Witness ==
    /\ crawl_pc = "done"
    /\ site = Site4
    /\ max_pages = 3
    /\ Cardinality(visited_urls) = max_pages
    /\ PA \in visited_urls
    /\ PB \in enqueued
    /\ to_visit # <<>>

\* C4: within one crawl run scrape_page is called at most once per URL.
C4_NoUrlFetchedTwice ==
    crawl_pc \in {"loop", "done"} => NoDuplicates(fetch_log)

\* the front of the frontier is a URL that was enqueued again after pages
\* linking to each other were fetched
C4_Witness ==
    /\ crawl_pc = "loop"
    /\ site = Site3
    /\ Len(fetch_log) >= 2
    /\ to_visit # <<>>
    /\ Head(to_visit) \in visited_urls

\* C7: every crawl run reaches the return of scrape_website, and when it has
\* returned the frontier is empty or the number of visited URLs has reached
\* max_pages.
C7_CrawlTerminates ==
    /\ <>(crawl_pc = "done")
    /\ [](crawl_pc = "done" =>
            (to_visit = <<>> \/ Cardinality(visited_urls) >= max_pages))

\* a crawl of the cyclic web has returned on the cap after a failed fetch
C7_Witness ==
    /\ crawl_pc = "done"
    /\ site = Site3
    /\ Cardinality(visited_urls) = max_pages
    /\ max_pages = 2
    /\ to_visit # <<>>
    /\ documents = <<>>

----------------------------------------------------------------------------
(* Further properties of the crawl *)

\* the positions of documents whose source is url
DocumentsOf(url) == {i \in 1..Len(documents) : documents[i].source = url}

\* C11: for every URL visited in a crawl a Document with that URL as source
\* is emitted exactly when the fetch succeeded and the extracted text is
\* longer than 100 characters, and at most one Document per visited URL.
C11_DocumentIffLongText ==
    crawl_pc \in {"loop", "done"} =>
        /\ \A u \in visited_urls : \E r \in fetched : r.url = u
        /\ \A r \in fetched :
              /\ r.url \in visited_urls
              /\ (DocumentsOf(r.url) # {}) <=> (r.ok /\ r.len > 100)
              /\ Cardinality(DocumentsOf(r.url)) <= 1
        /\ \A i \in 1..Len(documents) : documents[i].source \in visited_urls

\* a crawl has returned with a document of 101 characters, after a page of
\* exactly 100 characters and a failed fetch gave none
C11_Witness ==
    /\ crawl_pc = "done"
    /\ site = Site4
    /\ [url |-> Seed, ok |-> TRUE, len |-> 100] \in fetched
    /\ [url |-> PA, ok |-> FALSE, len |-> 0] \in fetched
    /\ [url |-> PB, ok |-> TRUE, len |-> 101] \in fetched
    /\ Len(documents) = 1

\* C12: a failed page fetch is not fatal and not retried: the URL stays
\* visited, it gives no Document and no links to the frontier, and the crawl
\* is back at its loop test with the rest of the frontier.
C12_FailedFetchSkipped ==
    /\ [](\A r \in fetched :
            ~r.ok => (r.url \in visited_urls /\ DocumentsOf(r.url) = {}))
    /\ [](\A r1, r2 \in fetched : r1.url = r2.url => r1 = r2)
    /\ [](NoDuplicates(fetch_log))
    /\ [][\A r \in fetched' \ fetched :
            ~r.ok => /\ to_visit' = Tail(to_visit)
                     /\ enqueued' = enqueued
                     /\ documents' = documents
                     /\ crawl_pc' = "loop"]_vars

\* the fetch of /a failed and the crawl went on to fetch /b
C12_Witness ==
    /\ site = Site4
    /\ [url |-> PA, ok |-> FALSE, len |-> 0] \in fetched
    /\ fetch_log = <<Seed, PA, PB>>
    /\ PA \in visited_urls

RECURSIVE Discover(_, _, _, _)
\* the targets of hrefs on the page at url that are on the netloc dom and not
\* in seen, each once, in document order
Discover(url, hrefs, dom, seen) ==
    IF hrefs = <<>> THEN <<>>
    ELSE LET target == IF Head(hrefs).netloc = ""
                       THEN [netloc |-> url.netloc, path |-> Head(hrefs).path]
                       ELSE Head(hrefs)
         IN IF target.netloc = dom /\ target \notin seen
            THEN <<target>> \o Discover(url, Tail(hrefs), dom, seen \cup {target})
            ELSE Discover(url, Tail(hrefs), dom, seen)

RECURSIVE BreadthFirst(_, _, _, _)
\* the URLs of the web s on the netloc dom in breadth-first order of
\* discovery from the URLs of queue
BreadthFirst(s, queue, dom, seen) ==
    IF queue = <<>> THEN <<>>
    ELSE LET u == Head(queue)
             found == Discover(u, IF u \in DOMAIN s THEN s[u] ELSE <<>>,
                               dom, seen)
         IN <<u>> \o BreadthFirst(s, Tail(queue) \o found, dom,
                                  seen \cup {found[i] : i \in 1..Len(found)})

\* C14: when all fetches succeed a crawl visits exactly min(max_pages, number
\* of same-domain URLs reachable from the seed) URLs, in breadth-first order
\* of discovery; with a seed page that has one internal link and max_pages = 2
\* it visits exactly 2 pages and ends with an empty frontier.
C14_BreadthFirstUpToCap ==
    (crawl_pc = "done" /\ \A r \in fetched : r.ok) =>
        LET order == BreadthFirst(site, <<base_url>>, base_url.netloc,
                                  {base_url})
            k == IF max_pages <= Len(order) THEN max_pages ELSE Len(order)
        IN /\ fetch_log = [i \in 1..k |-> order[i]]
           /\ Cardinality(visited_urls) = k
           /\ (Len(order) = 2 /\ max_pages = 2) => to_visit = <<>>

\* every fetch succeeded on the web whose first page links to /a and /b and
\* whose /a links to /c: the cap of three cut the crawl after /b
C14_Witness ==
    /\ crawl_pc = "done"
    /\ site = Site5
    /\ max_pages = 3
    /\ \A r \in fetched : r.ok
    /\ fetch_log = <<Seed, PA, PB>>
    /\ to_visit # <<>>

\* the seed page has one internal link and max_pages is 2
C14_WitnessScenario ==
    /\ crawl_pc = "done"
    /\ site = Web2("example.com")
    /\ max_pages = 2
    /\ \A r \in fetched : r.ok
    /\ Cardinality(visited_urls) = 2
    /\ to_visit = <<>>

----------------------------------------------------------------------------
(* Properties of the chat endpoints *)

\* a str that is empty or consists of whitespace only
IsBlank(s) == \A i \in 1..Len(s) : s[i] \in Whitespace

IndexAndModelReady(g) ==
    g.rag_system.created /\ g.rag_system.vectorstore # "None" /\ g.llm # "None"

\* the conversation_history a request carries, None read as no history
RequestHistory(req) ==
    IF req.has_history THEN req.conversation_history ELSE <<>>

\* C1: POST /getMsg with empty or whitespace-only content, sent while the
\* index and the model client are initialized, is answered with HTTP 400.
C1_BlankContentIs400 ==
    (/\ http.op = "getMsg"
     /\ IndexAndModelReady(http.seen)
     /\ IsBlank(http.request.content)) => http.status = 400

\* C2 as claimed: in both variants the messages passed to the model are the
\* system instruction, the last min(n, 6) entries of the history whatever
\* they are, and the new user message.
C2_LastSixOfAnyHistory ==
    /\ (program = "server" /\ http.op = "getMsg" /\ http.invoked) =>
          LET h == RequestHistory(http.request)
              n == Len(h)
              k == Min(n, 6)
              m == http.messages
          IN /\ Len(m) = k + 2
             /\ m[1].type = "system"
             /\ \A i \in 1..k : m[1 + i].content = h[n - k + i].content
             /\ m[k + 2] = HumanMessage(strip(http.request.content))
    /\ (program = "console" /\ turn.invoked) =>
          LET h == turn.seen
              n == Len(h)
              k == Min(n, 6)
              m == turn.messages
          IN /\ Len(m) = k + 2
             /\ m[1].type = "system"
             /\ \A i \in 1..k : m[1 + i] = h[n - k + i]
             /\ m[k + 2] = HumanMessage(strip(turn.input))

HasChatRole(msg) == msg.role \in {"user", "bot"}

\* C2, amended: the console passes the system instruction, the last
\* min(n, 6) entries of its history and the new user message; the HTTP
\* handler passes the system instruction, those of the last min(n, 6) entries
\* of the request's history whose role is "user" or "bot", as human and AI
\* messages in their order, and the new user message.
C2_LastSixChatRoles ==
    /\ (program = "server" /\ http.op = "getMsg" /\ http.invoked) =>
          LET h == RequestHistory(http.request)
              n == Len(h)
              k == Min(n, 6)
              kept == SelectSeq([i \in 1..k |-> h[n - k + i]], HasChatRole)
              m == http.messages
          IN /\ Len(m) = Len(kept) + 2
             /\ m[1].type = "system"
             /\ \A i \in 1..Len(kept) :
                    /\ m[1 + i].content = kept[i].content
                    /\ m[1 + i].type =
                         (IF kept[i].role = "user" THEN "human" ELSE "ai")
             /\ m[Len(kept) + 2] = HumanMessage(strip(http.request.content))
    /\ (program = "console" /\ turn.invoked) =>
          LET h == turn.seen
              n == Len(h)
              k == Min(n, 6)
              m == turn.messages
          IN /\ Len(m) = k + 2
             /\ m[1].type = "system"
             /\ \A i \in 1..k : m[1 + i] = h[n - k + i]
             /\ m[k + 2] = HumanMessage(strip(turn.input))

\* a request with seven prior entries, one of the last six with the role
\* "assistant", was answered: five of them went to the model
C2_Witness ==
    /\ http.op = "getMsg"
    /\ http.status = 200
    /\ Len(RequestHistory(http.request)) = 7
    /\ RequestHistory(http.request)[4].role = "assistant"
    /\ Len(http.messages) = 7

\* a request with ten prior turns was answered: six of them went to the model
C2_WitnessTenTurns ==
    /\ http.op = "getMsg"
    /\ http.status = 200
    /\ RequestHistory(http.request) = TenTurns
    /\ Len(http.messages) = 8

\* a console turn after four exchanges: six of the eight entries went to the
\* model
C2_WitnessConsole ==
    /\ turn.outcome = "ok"
    /\ Len(turn.seen) = 8
    /\ Len(turn.messages) = 8

\* C5: POST /getMsg is answered with HTTP 503 whenever the index is unset or
\* the model client is uninitialized, whatever the content, and then neither
\* retrieval nor the model is called.
C5_Unavailable503 ==
    (http.op = "getMsg" /\ ~IndexAndModelReady(http.seen)) =>
        /\ http.status = 503
        /\ ~http.retrieved
        /\ ~http.invoked

\* the server started without an index on disk and refused a request
C5_Witness ==
    /\ phase = "serving"
    /\ http.op = "getMsg"
    /\ http.seen.rag_system.created
    /\ http.seen.rag_system.vectorstore = "None"
    /\ http.seen.llm # "None"
    /\ ~IsBlank(http.request.content)
    /\ http.status = 503

\* C6: in both variants a user message that is empty or whitespace-only is
\* rejected before retrieve_context or llm.invoke is called for it.
C6_BlankRejectedBeforeCalls ==
    /\ (program = "server" /\ http.op = "getMsg"
        /\ IsBlank(http.request.content)) =>
          /\ ~http.retrieved
          /\ ~http.invoked
          /\ http.status # 200
    /\ (program = "console" /\ turn.outcome # "none" /\ IsBlank(turn.input)) =>
          /\ ~turn.retrieved
          /\ ~turn.invoked
          /\ turn.outcome # "ok"
          /\ conversation_history = turn.seen

\* a whitespace-only request reached the try block of get_message
C6_Witness ==
    /\ http.op = "getMsg"
    /\ IndexAndModelReady(http.seen)
    /\ http.request.content = <<" ", "\t", "\n">>
    /\ http.status >= 400

\* a whitespace-only line was typed at the chat prompt after an exchange
C6_WitnessConsole ==
    /\ con_pc = "awaiting"
    /\ turn.input = <<" ", "\t">>
    /\ turn.outcome = "empty"
    /\ Len(conversation_history) >= 2

\* C8: a failure of llm.invoke stays in its turn or request: the console
\* loop is back at its prompt with the history as it was, and leaves only on
\* quit, exit or bye; the HTTP request is answered with 500 and rag_system and
\* llm are what they were.
C8_ModelFailureIsolated ==
    /\ []((program = "console" /\ turn.llm_failed) =>
            (con_pc = "awaiting" /\ conversation_history = turn.seen))
    /\ [](con_pc # "crashed")
    /\ [](con_pc = "ended" => lower(strip(turn.input)) \in ControlWords)
    /\ []((http.op = "getMsg" /\ http.llm_failed) => http.status = 500)
    /\ [][(http'.op = "getMsg" /\ http'.llm_failed) =>
            (rag_system' = rag_system /\ llm' = llm /\ phase' = phase)]_vars

\* llm.invoke failed in a console turn that followed an exchange
C8_Witness ==
    /\ con_pc = "awaiting"
    /\ turn.llm_failed
    /\ turn.invoked
    /\ Len(conversation_history) >= 2

\* llm.invoke failed in a request
C8_WitnessHttp ==
    /\ phase = "serving"
    /\ http.op = "getMsg"
    /\ http.llm_failed
    /\ http.status = 500
    /\ IndexAndModelReady(Globals)

\* C9: in the console an input that, trimmed and lower-cased, is quit, exit
\* or bye ends the loop with the farewell, without retrieval or model call
\* and with the history unchanged; no other input ends the loop.
C9_ControlInputEndsLoop ==
    /\ (turn.outcome # "none" /\ lower(strip(turn.input)) \in ControlWords) =>
          /\ con_pc = "ended"
          /\ turn.outcome = "bye"
          /\ ~turn.retrieved
          /\ ~turn.invoked
          /\ conversation_history = turn.seen
    /\ con_pc \in {"ended", "crashed"} =>
          lower(strip(turn.input)) \in ControlWords

\* " ByE " was typed after an exchange
C9_Witness ==
    /\ con_pc = "ended"
    /\ turn.input = <<" ", "B", "y", "E", " ">>
    /\ Len(conversation_history) >= 2

\* the contents of the entries of a history
Contents(h) == {h[i].content : i \in 1..Len(h)}

\* C10: after startup no handler changes rag_system, its vectorstore or llm;
\* the session history store is never written, /reset leaves it empty and
\* answers "success", and what /getMsg passes to the model comes from its own
\* request body and the retrieval on the index.
C10_SharedStateReadOnly ==
    /\ [][phase = "serving" => (rag_system' = rag_system /\ llm' = llm)]_vars
    /\ [](conversation_histories = {})
    /\ [](http.op = "reset" => http.body.status = "success")
    /\ []((http.op = "getMsg" /\ http.invoked) =>
            /\ http.seen.conversation_histories = {}
            /\ \A i \in 2..Len(http.messages) :
                 http.messages[i].content \in
                    {strip(http.request.content)}
                    \cup Contents(RequestHistory(http.request)))

\* /reset was handled by a server that has its index and its model client
C10_Witness ==
    /\ phase = "serving"
    /\ http.op = "reset"
    /\ IndexAndModelReady(Globals)
    /\ http.seen = Globals

----------------------------------------------------------------------------
(* Properties of startup and of the probes *)

\* C13: at startup a missing GROQ_API_KEY is fatal, and startup_event raises
\* before llm or rag_system is created; a missing FAISS index is not fatal,
\* startup completes with llm set and rag_system without a vectorstore.
C13_StartupFatalOnlyWithoutKey ==
    /\ (phase # "loaded" /\ ~groq_api_key) =>
          /\ phase = "aborted"
          /\ llm = "None"
          /\ ~rag_system.created
          /\ rag_system.vectorstore = "None"
    /\ (phase # "loaded" /\ groq_api_key /\ index_on_disk = "missing") =>
          /\ phase = "serving"
          /\ llm # "None"
          /\ rag_system.created
          /\ rag_system.vectorstore = "None"

\* the server started without an index on disk and answers its probe
C13_Witness ==
    /\ phase = "serving"
    /\ groq_api_key
    /\ index_on_disk = "missing"
    /\ http.op = "root"
    /\ ~http.body.rag_loaded
    /\ http.seen = Globals

\* startup was aborted for want of the key
C13_WitnessNoKey ==
    /\ phase = "aborted"
    /\ ~groq_api_key
    /\ index_on_disk = "ok"

\* get_message refuses the request for want of the index
RefusedForIndex(req, g) ==
    LET r == get_message(req, g, [search_ok |-> TRUE, hits |-> <<>>,
                                  llm_ok |-> TRUE, reply |-> <<"o", "k">>])
    IN r.status = 503 /\ r.body.detail = <<"RAG system not initialized">>

\* C19: in every reachable server state GET / reports rag_loaded = true
\* exactly when POST /getMsg is not refused with 503 for a missing index, and
\* GET /health reports vectorstore_loaded with the same value.
C19_ProbesAgreeWithGetMsg ==
    program = "server" =>
        /\ \A c \in ContentSamples :
              root(Globals).rag_loaded
                  <=> ~RefusedForIndex(ChatRequest(c, FALSE, <<>>), Globals)
        /\ health_check(Globals).rag_system.vectorstore_loaded
              = root(Globals).rag_loaded
        /\ (http.op = "health" /\ http.seen = Globals) =>
              (http.body.rag_system.vectorstore_loaded
                  <=> ~RefusedForIndex(NoRequest, Globals))

\* /health was asked on a server that has a RAGSystem without a vectorstore
C19_Witness ==
    /\ phase = "serving"
    /\ rag_system.created
    /\ rag_system.vectorstore = "None"
    /\ http.op = "health"
    /\ http.seen = Globals
    /\ ~http.body.rag_system.vectorstore_loaded

----------------------------------------------------------------------------
(* Further properties of the console session *)

\* C17: after any sequence of console turns the conversation history has
\* even length and alternates user message, assistant reply; a successful
\* turn appends exactly the user message and then the reply, an empty input,
\* a control input or a failed turn leaves the history as it was.
C17_HistoryAlternates ==
    LET h == conversation_history
        n == Len(turn.seen)
    IN /\ Len(h) % 2 = 0
       /\ \A i \in 1..Len(h) :
             h[i].type = (IF i % 2 = 1 THEN "human" ELSE "ai")
       /\ turn.outcome = "ok" =>
             /\ Len(h) = n + 2
             /\ \A i \in 1..n : h[i] = turn.seen[i]
             /\ h[n + 1] = [type |-> "human", content |-> strip(turn.input)]
             /\ h[n + 2].type = "ai"
             /\ h[n + 2].content \in {o.reply : o \in Oracles}
       /\ turn.outcome \in {"none", "bye", "empty", "error"} => h = turn.seen

\* the third exchange of a session has just been appended
C17_Witness ==
    /\ con_pc = "awaiting"
    /\ turn.outcome = "ok"
    /\ Len(conversation_history) = 6
    /\ conversation_history[5].content = <<"q", "u", "i", "t", "s">>
    /\ conversation_history[1].content = <<"h", "i">>

\* a turn failed after an exchange and left the history alone
C17_WitnessFailed ==
    /\ con_pc = "awaiting"
    /\ turn.outcome = "error"
    /\ ~turn.invoked
    /\ Len(conversation_history) = 2

\* C18: the chat loop is entered only with an index set: the index was built
\* from at least one scraped document or loaded from disk before the first
\* prompt, or else the program has left without prompting for chat input.
C18_ChatOnlyWithIndex ==
    /\ con_pc \in {"awaiting", "ended", "crashed"} =>
          /\ rag.vectorstore # "None"
          /\ \/ crawl_pc = "done" /\ documents # <<>>
             \/ crawl_pc = "idle" /\ index_on_disk = "ok"
    /\ con_pc = "exited" =>
          /\ turn = NoTurn
          /\ conversation_history = <<>>
    /\ (program = "console" /\ turn # NoTurn) => rag.vectorstore # "None"

\* the index on disk could not be used, the site was scraped again with one
\* failed fetch and one document, and the first prompt is up
C18_Witness ==
    /\ con_pc = "awaiting"
    /\ turn = NoTurn
    /\ crawl_pc = "done"
    /\ Len(documents) = 1
    /\ \E r \in fetched : ~r.ok
    /\ rag.vectorstore # "None"

\* the scrape gave no document and the program left
C18_WitnessExit ==
    /\ con_pc = "exited"
    /\ crawl_pc = "done"
    /\ documents = <<>>
    /\ rag.vectorstore = "None"

----------------------------------------------------------------------------
(* Properties of the index build and of the formatter *)

\* the source a section and the sources list show for a hit
ShownSource(doc) == IF doc.has_source THEN doc.source ELSE "Unknown"

RECURSIVE SectionStart(_, _)
\* where the i-th section starts in the context: a header is six pieces,
\* "[Source ", i, ": ", source, "]", "\n", and two line ends follow a section
SectionStart(docs, i) ==
    IF i = 1 THEN 1
    ELSE SectionStart(docs, i - 1) + 6 + Len(docs[i - 1].page_content) + 2

\* C15: for a retrieval result of k hits the formatter yields exactly k
\* sections labelled Source 1..k in rank order and joined by a blank line,
\* and in the HTTP variant a sources list of length k whose i-th entry is
\* the source of the i-th hit; an empty result yields the empty string and
\* an empty source list.
C15_FormatterSections ==
    (retrieval.pc = "returned" /\ retrieval.has_store) =>
        LET d == retrieval.docs
            k == Len(d)
            c == retrieval.context
            labels == <<"1", "2", "3", "4", "5", "6", "7", "8", "9">>
        IN /\ k = 0 => c = <<>>
           /\ k > 0 => Len(c) = SectionStart(d, k + 1) - 3
           /\ \A i \in 1..k :
                 LET s == SectionStart(d, i)
                     n == Len(d[i].page_content)
                 IN /\ c[s] = "[Source "
                    /\ c[s + 1] = labels[i]
                    /\ c[s + 2] = ": "
                    /\ c[s + 3] = ShownSource(d[i])
                    /\ c[s + 4] = "]"
                    /\ c[s + 5] = "\n"
                    /\ SubSeq(c, s + 6, s + 5 + n) = d[i].page_content
                    /\ i < k => c[s + 6 + n] = "\n" /\ c[s + 7 + n] = "\n"
           /\ retrieval.variant = "main" =>
                 /\ Len(retrieval.sources) = k
                 /\ \A i \in 1..k : retrieval.sources[i] = ShownSource(d[i])

\* three hits ranked, the second without a source and with a blank line in
\* its text, formatted by the HTTP variant
C15_Witness ==
    /\ retrieval.pc = "returned"
    /\ retrieval.variant = "main"
    /\ retrieval.has_store
    /\ Len(retrieval.docs) = 3
    /\ ~retrieval.docs[2].has_source
    /\ retrieval.docs[1] # retrieval.docs[3]
    /\ Len(retrieval.context) > 0

\* an empty result formatted by the HTTP variant
C15_WitnessEmpty ==
    /\ retrieval.pc = "returned"
    /\ retrieval.variant = "main"
    /\ retrieval.has_store
    /\ retrieval.docs = <<>>
    /\ retrieval.context = <<>>
    /\ retrieval.sources = <<>>

\* three hits formatted by the console variant
C15_WitnessConsole ==
    /\ retrieval.pc = "returned"
    /\ retrieval.variant = "chatbot"
    /\ retrieval.has_store
    /\ Len(retrieval.docs) = 3

\* C16: during the index build the list of chunk texts and the list of chunk
\* metadata have the same length after every document, and the i-th
\* metadata's source is the source of the document the i-th chunk was split
\* from, for every sequence of documents; the index stores them so paired.
C16_ChunksKeepSource ==
    LET t == build.texts
        m == build.metadatas
        o == build.origins
        docs == build.documents
    IN /\ Len(t) = Len(m)
       /\ Len(o) = Len(t)
       /\ \A i \in 1..Len(t) :
             /\ o[i] \in 1..Len(docs)
             /\ t[i].of = docs[o[i]].content
             /\ m[i].source = docs[o[i]].source
       /\ build.pc = "stored" =>
             /\ Len(build.index) = Len(t)
             /\ \A i \in 1..Len(t) :
                   /\ build.index[i].page_content = t[i]
                   /\ build.index[i].metadata.source = docs[o[i]].source

\* three documents, the first split in two, the second giving no chunk, the
\* third split in two, and the index stored
C16_Witness ==
    /\ build.pc = "stored"
    /\ Len(build.documents) = 3
    /\ build.documents[1].source # build.documents[3].source
    /\ build.origins = <<1, 1, 3, 3>>
    /\ Len(build.index) = 4

====
